---- MODULE Spec2Model ----
(***************************************************************************)
(* The JSON-RPC front end of the user store: the POST /mcp dispatcher, the *)
(* tool registry `tools`, the REST endpoints /tools/*, seedDatabase and    *)
(* startServer, over a users table with a SERIAL primary key.              *)
(*                                                                         *)
(* An async handler runs synchronously up to its first `await db.query`,   *)
(* and resumes when the Store settles the query.  A request is therefore   *)
(* two steps: the synchronous part (Post / Rest) and the settlement of its *)
(* query (StoreReply), between which other connections may act.            *)
(***************************************************************************)
EXTENDS Integers, Sequences, FiniteSets, TLC

(***************************************************************************)
(* Bounds of the model.                                                    *)
(***************************************************************************)
\* connections that can have a request in flight at the same time
NumConn == 2
\* largest value the users_id_seq sequence hands out
MaxId == 4
\* largest request id a client sends
MaxRequestId == 1
\* texts of integers up to this value are parsed by the Store's integer input
MaxKey == 999

(***************************************************************************)
(* Program constants.                                                      *)
(***************************************************************************)
\* name VARCHAR(100)
NameLimit == 100
\* email VARCHAR(255)
EmailLimit == 255
\* role VARCHAR(50)
RoleLimit == 50
\* error: { code: -32601, ... }  (unknown tool, unknown method)
MethodNotFound == -32601
\* error: { code: -32000, message: err.message }
ServerError == -32000

(***************************************************************************)
(* JavaScript / JSON values.  Every value has the same three fields so     *)
(* that any two can be compared.                                           *)
(***************************************************************************)
Undefined == [t |-> "undefined", n |-> 0, s |-> ""]
Null == [t |-> "null", n |-> 0, s |-> ""]
Num(k) == [t |-> "number", n |-> k, s |-> ""]
Str(x) == [t |-> "string", n |-> 0, s |-> x]

\* String(v): the text a template literal or a property key makes of a value
JsString(v) ==
    CASE v.t = "string" -> v.s
      [] v.t = "number" -> ToString(v.n)
      [] v.t = "null" -> "null"
      [] OTHER -> "undefined"

\* An arguments object: the members the handlers destructure.  A member that
\* is missing reads as Undefined.  present = FALSE: no object at all.
Obj(i, n, e, r) == [present |-> TRUE, id |-> i, name |-> n, email |-> e, role |-> r]
EmptyObj == Obj(Undefined, Undefined, Undefined, Undefined)
NoObj == [present |-> FALSE, id |-> Undefined, name |-> Undefined,
          email |-> Undefined, role |-> Undefined]

\* `x || {}`
OrEmpty(o) == IF o.present THEN o ELSE EmptyObj

(***************************************************************************)
(* The Store: the users table behind db.query.                             *)
(***************************************************************************)
NoQuery == [op |-> "none", p1 |-> Undefined, p2 |-> Undefined, p3 |-> Undefined]
SelectAll == [op |-> "select_all", p1 |-> Undefined, p2 |-> Undefined, p3 |-> Undefined]
SelectById(v) == [op |-> "select_by_id", p1 |-> v, p2 |-> Undefined, p3 |-> Undefined]
Insert(n, e, r) == [op |-> "insert", p1 |-> n, p2 |-> e, p3 |-> r]

\* A query parameter as the driver sends it: null and undefined become NULL,
\* everything else its text.
SqlNull == [null |-> TRUE, text |-> ""]
SqlText(x) == [null |-> FALSE, text |-> x]
PrepareValue(v) ==
    IF v.t \in {"undefined", "null"} THEN SqlNull ELSE SqlText(JsString(v))

\* The decimal texts of the integers the Store's integer input accepts here.
DecimalText == [k \in 0..MaxKey |-> ToString(k)]
IntegerOfText == [x \in {DecimalText[k] : k \in 0..MaxKey} |->
                    CHOOSE k \in 0..MaxKey : DecimalText[k] = x]
IsInteger(x) == x \in DOMAIN IntegerOfText
ParseInteger(x) == IntegerOfText[x]

\* A stored column value back as a JSON value.
ColumnJson(c) == IF c.null THEN Null ELSE Str(c.text)

Row(i, n, e, r, t) == [id |-> i, name |-> n, email |-> e, role |-> r, created_at |-> t]

Ids(table) == {table[i].id : i \in 1..Len(table)}
RowsWithId(table, k) == SelectSeq(table, LAMBDA row : row.id = k)

\* VARCHAR(n): a longer text is refused
FitsColumn(c, limit) == c.null \/ Len(c.text) <= limit

\* What a statement does to the table when the Store runs it at clock
\* reading t with the sequence at seq: the rows it returns, or the message it
\* is refused with, and the table afterwards.
Resolved(rows, table) == [ok |-> TRUE, rows |-> rows, message |-> <<>>, table |-> table]
Rejected(msg, table) == [ok |-> FALSE, rows |-> <<>>, message |-> msg, table |-> table]

\* a variant of ExecSelectAll: SELECT * FROM users LIMIT 2
ExecSelectAllLimit2(table) ==
    Resolved(SubSeq(table, 1, IF Len(table) < 2 THEN Len(table) ELSE 2), table)

\* SELECT * FROM users
ExecSelectAll(table) == Resolved(table, table)

\* a variant of ExecSelectById: DELETE FROM users WHERE id = $1 RETURNING *
ExecSelectByIdConsuming(v, table) ==
    LET p == PrepareValue(v) IN
    IF p.null THEN Resolved(<<>>, table)
    ELSE IF IsInteger(p.text)
    THEN Resolved(RowsWithId(table, ParseInteger(p.text)),
                  SelectSeq(table, LAMBDA row : row.id # ParseInteger(p.text)))
    ELSE Rejected(<<"invalid input syntax for type integer: ", p.text>>, table)

\* SELECT * FROM users WHERE id = $1: the parameter is compared as an integer,
\* so its text goes through the integer input; NULL matches no row.
ExecSelectById(v, table) ==
    LET p == PrepareValue(v) IN
    IF p.null THEN Resolved(<<>>, table)
    ELSE IF IsInteger(p.text) THEN Resolved(RowsWithId(table, ParseInteger(p.text)), table)
    ELSE Rejected(<<"invalid input syntax for type integer: ", p.text>>, table)

\* a variant of ExecInsert: the id is the sequence's last value (currval),
\* not its next one
ExecInsertLastId(n, e, r, table, seq, t) ==
    LET row == Row(seq - 1, PrepareValue(n), PrepareValue(e), PrepareValue(r), t)
    IN  IF ~FitsColumn(PrepareValue(n), NameLimit)
        THEN Rejected(<<"value too long for type character varying(100)">>, table)
        ELSE Resolved(<<row>>, Append(table, row))

\* a variant of ExecInsert: ... ON CONFLICT (name) DO UPDATE SET email, role,
\* created_at: a row with the same name is overwritten instead of a row added
ExecInsertUpsert(n, e, r, table, seq, t) ==
    LET pn == PrepareValue(n)
        same == {i \in 1..Len(table) : table[i].name = pn}
        row == IF same = {} THEN Row(seq, pn, PrepareValue(e), PrepareValue(r), t)
               ELSE Row(table[CHOOSE i \in same : TRUE].id, pn,
                        PrepareValue(e), PrepareValue(r), t)
    IN  IF ~FitsColumn(pn, NameLimit)
        THEN Rejected(<<"value too long for type character varying(100)">>, table)
        ELSE IF same = {} THEN Resolved(<<row>>, Append(table, row))
        ELSE Resolved(<<row>>, [i \in 1..Len(table) |->
                                  IF i \in same THEN row ELSE table[i]])

\* INSERT INTO users (name, email, role) VALUES ($1, $2, $3) RETURNING *
ExecInsert(n, e, r, table, seq, t) ==
    LET pn == PrepareValue(n)
        pe == PrepareValue(e)
        pr == PrepareValue(r)
        row == Row(seq, pn, pe, pr, t)
    IN  IF ~FitsColumn(pn, NameLimit)
        THEN Rejected(<<"value too long for type character varying(100)">>, table)
        ELSE IF ~FitsColumn(pe, EmailLimit)
        THEN Rejected(<<"value too long for type character varying(255)">>, table)
        ELSE IF ~FitsColumn(pr, RoleLimit)
        THEN Rejected(<<"value too long for type character varying(50)">>, table)
        ELSE Resolved(<<row>>, Append(table, row))

Execute(q, table, seq, t) ==
    CASE q.op = "select_all" -> ExecSelectAll(table)
      [] q.op = "select_by_id" -> ExecSelectById(q.p1, table)
      [] q.op = "insert" -> ExecInsert(q.p1, q.p2, q.p3, table, seq, t)
      [] OTHER -> Resolved(<<>>, table)

\* The connection to the Store failing: any query can be refused this way,
\* and a refused statement leaves the table as it was.
ConnectionLost(table) == Rejected(<<"Connection terminated unexpectedly">>, table)

\* A row as the driver hands it to JavaScript.
RowJson(row) == [id |-> Num(row.id), name |-> ColumnJson(row.name),
                 email |-> ColumnJson(row.email), role |-> ColumnJson(row.role),
                 created_at |-> Num(row.created_at)]
RowsJson(rows) == [i \in 1..Len(rows) |-> RowJson(rows[i])]

(***************************************************************************)
(* Responses.  shape "envelope": { jsonrpc: "2.0", id, result | error };    *)
(* "raw": a REST endpoint's bare JSON value; "rest_error": { error: text }. *)
(* res.json leaves out a member whose value is undefined, so a member is    *)
(* in the body exactly when its value is not undefined.                     *)
(***************************************************************************)
ResUndefined == [kind |-> "undefined", rows |-> <<>>]
ResNull == [kind |-> "null", rows |-> <<>>]
ResRow(row) == [kind |-> "row", rows |-> <<row>>]
ResRows(rows) == [kind |-> "rows", rows |-> rows]
ResTools(list) == [kind |-> "discovery", rows |-> list]

NoError == [present |-> FALSE, code |-> 0, message |-> <<>>]
Error(code, msg) == [present |-> TRUE, code |-> code, message |-> msg]

Envelope(id, result, error) ==
    [status |-> 200, shape |-> "envelope", id |-> id, result |-> result, error |-> error]
ResultEnvelope(id, result) == Envelope(id, result, NoError)
ErrorEnvelope(id, code, msg) == Envelope(id, ResUndefined, Error(code, msg))

HasResult(env) == env.result.kind # "undefined"
HasError(env) == env.error.present

(***************************************************************************)
(* The tool registry.                                                      *)
(***************************************************************************)
tools == << [name |-> "list_users", description |-> "List all users"],
            [name |-> "get_user", description |-> "Get a user by ID"],
            [name |-> "create_user", description |-> "Create a new user"] >>

ToolNames == {tools[i].name : i \in 1..Len(tools)}

\* `tools` is an object literal: besides its own three members a lookup finds
\* what it inherits from Object.prototype.
ObjectPrototypeKeys == {"constructor", "toString", "toLocaleString", "valueOf",
                        "hasOwnProperty", "isPrototypeOf", "propertyIsEnumerable",
                        "__proto__", "__defineGetter__", "__defineSetter__",
                        "__lookupGetter__", "__lookupSetter__"}

\* tools[name]: "tool" (an entry with a handler), "inherited" (a truthy value
\* with no handler member) or "undefined"
ToolLookup(name) ==
    LET key == JsString(name) IN
    IF key \in ToolNames THEN "tool"
    ELSE IF key \in ObjectPrototypeKeys THEN "inherited"
    ELSE "undefined"

\* the same entries listed by name in alphabetical order
ToolListSorted == [i \in 1..Len(tools) |-> [name |-> tools[Len(tools) + 1 - i].name,
                                            description |-> tools[Len(tools) + 1 - i].description]]

\* Object.entries(tools).map(([name, t]) => ({ name, description: t.description }))
ToolList == [i \in 1..Len(tools) |-> [name |-> tools[i].name,
                                      description |-> tools[i].description]]

\* The query a handler issues before it suspends.
list_users_query(a) == SelectAll
get_user_query(a) == SelectById(a.id)
create_user_query(a) == Insert(a.name, a.email, a.role)

HandlerQuery(tool, a) ==
    CASE tool = "list_users" -> list_users_query(a)
      [] tool = "get_user" -> get_user_query(a)
      [] tool = "create_user" -> create_user_query(a)
      [] OTHER -> NoQuery

\* rows[0]: undefined when there is no row
FirstRow(rows) == IF Len(rows) > 0 THEN ResRow(RowJson(rows[1])) ELSE ResUndefined
\* a variant of OrNull: the `|| null` left out
OrNullLeftOut(x) == x

\* x || null
OrNull(x) == IF x.kind = "undefined" THEN ResNull ELSE x

\* a variant of get_user_return: no row is reported as a failure would be,
\* by returning nothing
get_user_return_nothing(rows) == FirstRow(rows)

\* What a handler returns from the rows its query resolved with.
list_users_return(rows) == ResRows(RowsJson(rows))
get_user_return(rows) == OrNull(FirstRow(rows))
create_user_return(rows) == FirstRow(rows)

HandlerReturn(tool, rows) ==
    CASE tool = "list_users" -> list_users_return(rows)
      [] tool = "get_user" -> get_user_return(rows)
      [] tool = "create_user" -> create_user_return(rows)
      [] OTHER -> ResUndefined

(***************************************************************************)
(* Requests.                                                               *)
(***************************************************************************)
\* A method string is written as `mcp` copies of the prefix "mcp/" followed
\* by `rest`, a text that does not itself begin with "mcp/".  present =
\* FALSE: the body has no method member.
Method(k, x) == [present |-> TRUE, mcp |-> k, rest |-> x]
NoMethod == [present |-> FALSE, mcp |-> 0, rest |-> ""]

\* a variant of normalizedMethod: the method is compared as sent
normalizedMethodVerbatim(m) == m

\* method.replace(/^mcp\//, ""): the pattern is anchored and not global, so
\* one leading "mcp/" is removed, if there is one.
normalizedMethod(m) == IF m.mcp > 0 THEN Method(m.mcp - 1, m.rest) ELSE m

\* the method string in pieces, as `${method}` puts it into a message
MethodText(m) == [i \in 1..m.mcp |-> "mcp/"] \o <<m.rest>>

\* params: { name, args, arguments }; present = FALSE: no params member
Params(n, a, b) == [present |-> TRUE, name |-> n, args |-> a, arguments |-> b]
NoParams == [present |-> FALSE, name |-> Undefined, args |-> NoObj, arguments |-> NoObj]

\* A request as the transport hands it over.  route "mcp": POST /mcp with body
\* { id, method, params }.  "rest_list", "rest_get", "rest_create": the REST
\* endpoints, whose route parameter or body is `rest`.
McpRequest(id, m, p) ==
    [route |-> "mcp", id |-> id, method |-> m, params |-> p, rest |-> NoObj]
RestRequest(route, o) ==
    [route |-> route, id |-> Undefined, method |-> NoMethod, params |-> NoParams, rest |-> o]
NoRequest == RestRequest("none", NoObj)

(***************************************************************************)
(* POST /mcp.  Dispatch is the part of the handler that runs before it     *)
(* first suspends: it either sends the response (out) or leaves a query    *)
(* to await.                                                               *)
(***************************************************************************)
Sent(env) == [out |-> <<env>>, query |-> NoQuery]
Awaiting(q) == [out |-> <<>>, query |-> q]

\* a variant of CatchEnvelope: the catch clause answers with id null
CatchEnvelopeNullId(id, msg) == ErrorEnvelope(Null, ServerError, msg)

\* catch (err) { return res.json({ jsonrpc, id, error: { code: -32000, message: err.message } }) }
CatchEnvelope(id, msg) == ErrorEnvelope(id, ServerError, msg)

\* initialize / get_tools
Discovery(id) == ResultEnvelope(id, ResTools(ToolList))

\* const { name, args } = params || {}
ParamsOrEmpty(p) == IF p.present THEN p ELSE Params(Undefined, NoObj, NoObj)

\* the tool an invocation request names, as a registry key
ToolOf(req) == JsString(ParamsOrEmpty(req.params).name)

UnknownTool(id, name) ==
    ErrorEnvelope(id, MethodNotFound, <<"Unknown tool: ", JsString(name)>>)

UnknownMethod(id, m) ==
    ErrorEnvelope(id, MethodNotFound, <<"Unknown method: ">> \o MethodText(m))

\* if (normalizedMethod === "invoke_tool") { ... }
InvokeTool(id, p) ==
    LET name == ParamsOrEmpty(p).name
        args == ParamsOrEmpty(p).args
        tool == ToolLookup(name)
    IN  IF tool = "undefined" THEN Sent(UnknownTool(id, name))
        ELSE IF tool = "inherited"
        THEN Sent(CatchEnvelope(id, <<"tool.handler is not a function">>))
        ELSE Awaiting(HandlerQuery(JsString(name), OrEmpty(args)))

Dispatch(req) ==
    IF ~req.method.present
    THEN Sent(CatchEnvelope(req.id,
              <<"Cannot read properties of undefined (reading 'replace')">>))
    ELSE LET nm == normalizedMethod(req.method) IN
         IF nm = Method(0, "initialize") \/ nm = Method(0, "get_tools")
         THEN Sent(Discovery(req.id))
         ELSE IF nm = Method(0, "invoke_tool")
         THEN InvokeTool(req.id, req.params)
         ELSE Sent(UnknownMethod(req.id, req.method))

\* a variant of Resume: no catch clause, the rows of a refused query (none) are
\* answered as a result
ResumeUncaught(req, outcome) ==
    ResultEnvelope(req.id, HandlerReturn(ToolOf(req), outcome.rows))

\* const result = await tool.handler(args || {}); return res.json({ jsonrpc, id, result })
\* or, the query having been refused, the catch clause
Resume(req, outcome) ==
    IF outcome.ok
    THEN ResultEnvelope(req.id, HandlerReturn(ToolOf(req), outcome.rows))
    ELSE CatchEnvelope(req.id, outcome.message)

(***************************************************************************)
(* The REST endpoints /tools/list_users, /tools/get_user/:id and           *)
(* /tools/create_user.                                                     *)
(***************************************************************************)
RestQuery(req) ==
    CASE req.route = "rest_list" -> SelectAll
      [] req.route = "rest_get" -> SelectById(req.rest.id)
      [] req.route = "rest_create" -> Insert(req.rest.name, req.rest.email, req.rest.role)
      [] OTHER -> NoQuery

RestOk(result) ==
    [status |-> 200, shape |-> "raw", id |-> Undefined, result |-> result, error |-> NoError]
RestFailed(msg) ==
    [status |-> 500, shape |-> "rest_error", id |-> Undefined, result |-> ResUndefined,
     error |-> Error(0, msg)]

RestResume(req, outcome) ==
    IF ~outcome.ok THEN RestFailed(outcome.message)
    ELSE CASE req.route = "rest_list" -> RestOk(ResRows(RowsJson(outcome.rows)))
           [] req.route = "rest_get" -> RestOk(OrNull(FirstRow(outcome.rows)))
           [] OTHER -> RestOk(FirstRow(outcome.rows))

(***************************************************************************)
(* The requests the clients send.                                          *)
(***************************************************************************)
RequestIds == {Undefined} \cup {Num(k) : k \in 1..MaxRequestId}

\* a name of 101 characters, one more than VARCHAR(100) holds
LongName == "CarolCarolCarolCarolCarolCarolCarolCarolCarolCarolCarolCarolCarolCarolCarolCarolCarolCarolCarolCarolC"

Carol == Obj(Undefined, Str("Carol"), Str("carol@example.com"), Str("user"))
CarolNoRole == Obj(Undefined, Str("Carol"), Str("carol@example.com"), Undefined)
CarolNumericName == Obj(Undefined, Num(7), Str("carol@example.com"), Str("user"))
CarolLongName == Obj(Undefined, Str(LongName), Str("carol@example.com"), Str("user"))
ById(v) == Obj(v, Undefined, Undefined, Undefined)

DiscoveryMethods == {Method(0, "initialize"), Method(1, "initialize"),
                     Method(0, "get_tools"), Method(1, "get_tools")}
InvocationMethods == {Method(0, "invoke_tool"), Method(1, "invoke_tool")}
OtherMethods == {NoMethod, Method(0, "tools/call"), Method(0, "tools/list"),
                 Method(0, "Invoke_Tool"), Method(0, "INITIALIZE"),
                 Method(2, "invoke_tool")}

GetUserArgs == {ById(Num(1)), ById(Num(3)), ById(Num(999)), ById(Str("5")),
                ById(Str("3")), ById(Str("abc")), EmptyObj}
CreateUserArgs == {Carol, CarolNoRole, CarolNumericName, CarolLongName, NoObj}

InvocationParams ==
    {NoParams, Params(Undefined, Carol, NoObj), Params(Str("list_users"), NoObj, NoObj)}
    \cup {Params(Str("get_user"), a, NoObj) : a \in GetUserArgs}
    \cup {Params(Str("create_user"), a, NoObj) : a \in CreateUserArgs}
    \cup {Params(Str("get_user"), NoObj, ById(Num(1))),
          Params(Str("create_user"), NoObj, Carol)}
    \cup {Params(Str("delete_user"), NoObj, NoObj), Params(Str("delete_user"), Carol, NoObj),
          Params(Str("toString"), NoObj, NoObj), Params(Str("constructor"), Carol, NoObj)}

McpRequests ==
    {McpRequest(i, m, NoParams) : i \in RequestIds, m \in DiscoveryMethods \cup OtherMethods}
    \cup {McpRequest(i, Method(0, "tools/call"), p) : i \in RequestIds,
            p \in {Params(Str("get_user"), NoObj, ById(Num(999))),
                   Params(Str("create_user"), NoObj, Carol)}}
    \cup {McpRequest(i, m, p) : i \in RequestIds, m \in InvocationMethods,
                                p \in InvocationParams}

RestRequests ==
    {RestRequest("rest_list", NoObj)}
    \cup {RestRequest("rest_get", ById(Str(x))) : x \in {"1", "999", "abc"}}
    \cup {RestRequest("rest_create", o) : o \in {Carol, CarolNoRole, EmptyObj}}

(***************************************************************************)
(* State.                                                                  *)
(***************************************************************************)
VARIABLES
    users,    \* the rows of the users table, in insertion order
    nextId,   \* the next value of the sequence behind id SERIAL
    now,      \* the database clock (CURRENT_TIMESTAMP), read as the number of
              \* INSERT statements run so far: a later row is never stamped earlier
    server,   \* where startServer is: "check" (server.js only), "create_table",
              \* "count", "insert", "listening", "failed"
    conn,     \* per connection: the request, where its handler is, the query it
              \* issued, how the Store settled it and the responses sent
    creates   \* history: how many create calls (tool or REST) have been answered
              \* with the created entity

vars == <<users, nextId, now, server, conn, creates>>

Conn == 1..NumConn

\* settled: how the Store settled the query, "resolved" or "rejected"; "none"
\* while it has not, or when no query was issued
Idle == [pc |-> "idle", req |-> NoRequest, query |-> NoQuery, settled |-> "none",
         out |-> <<>>]

Init ==
    /\ users = <<>>
    /\ nextId = 1
    /\ now = 0
    /\ server = "create_table"
    /\ conn = [r \in Conn |-> Idle]
    /\ creates = 0

(***************************************************************************)
(* startServer: await seedDatabase(), then app.listen; a rejection is      *)
(* logged and the server never listens.                                    *)
(***************************************************************************)
\* CREATE TABLE IF NOT EXISTS users (...)
SeedCreateTable ==
    /\ server = "create_table"
    /\ server' = "count"
    /\ UNCHANGED <<users, nextId, now, conn, creates>>

\* a variant of SeedCount: the rows are inserted whatever the count is
SeedCountIgnored ==
    /\ server = "count"
    /\ server' = "insert"
    /\ UNCHANGED <<users, nextId, now, conn, creates>>

\* SELECT COUNT(*) AS count FROM users; if (parseInt(rows[0].count) === 0) ...
SeedCount ==
    /\ server = "count"
    /\ server' = IF Len(users) = 0 THEN "insert" ELSE "listening"
    /\ UNCHANGED <<users, nextId, now, conn, creates>>

SeedRows(seq, t) ==
    << Row(seq, SqlText("Alice"), SqlText("alice@example.com"), SqlText("admin"), t),
       Row(seq + 1, SqlText("Bob"), SqlText("bob@example.com"), SqlText("user"), t) >>

\* INSERT INTO users (name, email, role) VALUES ($1, $2, $3), ($4, $5, $6)
SeedInsert ==
    /\ server = "insert"
    /\ users' = users \o SeedRows(nextId, now)
    /\ now' = now + 1
    /\ nextId' = nextId + 2
    /\ server' = "listening"
    /\ UNCHANGED <<conn, creates>>

\* a variant of SeedFails: app.listen is reached after the catch clause
SeedFailsThenListens ==
    /\ server \in {"create_table", "count", "insert"}
    /\ server' = "listening"
    /\ UNCHANGED <<users, nextId, now, conn, creates>>

\* one of seedDatabase's queries is refused: catch (err) { console.error(...) }
SeedFails ==
    /\ server \in {"create_table", "count", "insert"}
    /\ server' = "failed"
    /\ UNCHANGED <<users, nextId, now, conn, creates>>

(***************************************************************************)
(* Requests.  A connection takes a request when it is idle, only a         *)
(* listening server is handed requests, and a connection whose response    *)
(* has been sent is closed and can be used again.                          *)
(***************************************************************************)
InFlightInserts ==
    Cardinality({c \in Conn : conn[c].pc = "awaiting" /\ conn[c].query.op = "insert"})

\* the model stops taking creates when the sequence would pass MaxId
SequenceRoom == nextId + InFlightInserts <= MaxId

Taken(req, d) ==
    [pc |-> IF d.out = <<>> THEN "awaiting" ELSE "done",
     req |-> req, query |-> d.query, settled |-> "none", out |-> d.out]

\* app.post("/mcp", ...) up to its response or its first await
Post(r, requests) ==
    /\ server = "listening"
    /\ conn[r].pc = "idle"
    /\ \E req \in requests :
        LET d == Dispatch(req) IN
        /\ d.query.op = "insert" => SequenceRoom
        /\ conn' = [conn EXCEPT ![r] = Taken(req, d)]
    /\ UNCHANGED <<users, nextId, now, server, creates>>

\* app.get("/tools/list_users"), app.get("/tools/get_user/:id"),
\* app.post("/tools/create_user") up to the await
Rest(r, requests) ==
    /\ server = "listening"
    /\ conn[r].pc = "idle"
    /\ \E req \in requests :
        LET d == Awaiting(RestQuery(req)) IN
        /\ d.query.op = "insert" => SequenceRoom
        /\ conn' = [conn EXCEPT ![r] = Taken(req, d)]
    /\ UNCHANGED <<users, nextId, now, server, creates>>

\* the rest of the handler, once its query has settled
Respond(req, outcome) ==
    IF req.route = "mcp" THEN Resume(req, outcome) ELSE RestResume(req, outcome)

\* a variant of Answered: the request is kept in one place shared by all
\* connections, which holds the request taken last (here: of the
\* highest-numbered connection in flight)
AnsweredLastRequest(r, outcome) ==
    LET last == CHOOSE c \in Conn :
                  /\ conn[c].pc # "idle"
                  /\ \A d \in Conn : conn[d].pc # "idle" => d <= c
    IN  [conn[r] EXCEPT !.pc = "done",
                        !.settled = IF outcome.ok THEN "resolved" ELSE "rejected",
                        !.out = <<Respond(conn[last].req, outcome)>>]

Answered(r, outcome) ==
    [conn[r] EXCEPT !.pc = "done",
                    !.settled = IF outcome.ok THEN "resolved" ELSE "rejected",
                    !.out = <<Respond(conn[r].req, outcome)>>]

\* The Store runs the query of connection r and the handler resumes with
\* its rows.
StoreResolves(r) ==
    /\ conn[r].pc = "awaiting"
    /\ LET q == conn[r].query IN
       LET o == Execute(q, users, nextId, now) IN
         /\ o.ok
         /\ users' = o.table
         /\ now' = IF q.op = "insert" THEN now + 1 ELSE now
         /\ nextId' = IF q.op = "insert" THEN nextId + 1 ELSE nextId
         /\ creates' = IF q.op = "insert" THEN creates + 1 ELSE creates
         /\ conn' = [conn EXCEPT ![r] = Answered(r, o)]
    /\ UNCHANGED server

\* The Store refuses the query of connection r (the statement is in error, or
\* the connection is lost) and the handler resumes in its catch clause.  A
\* refused INSERT may or may not have drawn a value from the sequence.
StoreRejects(r) ==
    /\ conn[r].pc = "awaiting"
    /\ LET q == conn[r].query IN
       \E o \in {Execute(q, users, nextId, now), ConnectionLost(users)} :
         /\ ~o.ok
         /\ users' = o.table
         /\ nextId' \in (IF q.op = "insert" THEN {nextId, nextId + 1} ELSE {nextId})
         /\ conn' = [conn EXCEPT ![r] = Answered(r, o)]
    /\ UNCHANGED <<now, server, creates>>

\* the response has been delivered and the connection is closed
Close(r) ==
    /\ conn[r].pc = "done"
    /\ conn' = [conn EXCEPT ![r] = Idle]
    /\ UNCHANGED <<users, nextId, now, server, creates>>

(***************************************************************************)
(* Spec: one client connection, sending any of the requests.               *)
(***************************************************************************)
Next ==
    \/ SeedCreateTable
    \/ SeedCount
    \/ SeedInsert
    \/ SeedFails
    \/ Post(1, McpRequests)
    \/ Rest(1, RestRequests)
    \/ StoreResolves(1)
    \/ StoreRejects(1)
    \/ Close(1)

Spec == Init /\ [][Next]_vars

\* The Store settles every query it is sent.
FairSpec == Spec /\ WF_vars(StoreResolves(1) \/ StoreRejects(1))

(***************************************************************************)
(* ConcurrentSpec: NumConn connections with requests in flight at the same *)
(* time, sending the requests that read and write the table.               *)
(***************************************************************************)
\* the requests sent on connection r, which carry r as their id
ConcurrentMcpRequests(r) ==
    {McpRequest(Num(r), Method(0, "invoke_tool"), p) :
        p \in {Params(Str("list_users"), NoObj, NoObj),
               Params(Str("get_user"), ById(Num(3)), NoObj),
               Params(Str("get_user"), ById(Num(4)), NoObj),
               Params(Str("create_user"), Carol, NoObj),
               Params(Str("create_user"), CarolLongName, NoObj),
               Params(Str("delete_user"), Carol, NoObj)}}

ConcurrentRestRequests == {RestRequest("rest_create", CarolNoRole)}

ConcurrentNext ==
    \/ SeedCreateTable
    \/ SeedCount
    \/ SeedInsert
    \/ SeedFails
    \/ \E r \in Conn : Post(r, ConcurrentMcpRequests(r))
    \/ \E r \in Conn : Rest(r, ConcurrentRestRequests)
    \/ \E r \in Conn : StoreResolves(r)
    \/ \E r \in Conn : StoreRejects(r)
    \/ \E r \in Conn : Close(r)

ConcurrentSpec == Init /\ [][ConcurrentNext]_vars

(***************************************************************************)
(* CheckedStartSpec: startServer of server.js, which awaits                *)
(* db.query("SELECT 1") before seedDatabase and leaves the process on a    *)
(* failure; seedDatabase and the REST endpoints are those of part_000.     *)
(***************************************************************************)
CheckedInit ==
    /\ users = <<>>
    /\ nextId = 1
    /\ now = 0
    /\ server = "check"
    /\ conn = [r \in Conn |-> Idle]
    /\ creates = 0

\* await db.query("SELECT 1")
ConnectionCheck ==
    /\ server = "check"
    /\ server' = "create_table"
    /\ UNCHANGED <<users, nextId, now, conn, creates>>

\* the check is refused: catch (err) { console.error(...); process.exit(1) }
ConnectionCheckFails ==
    /\ server = "check"
    /\ server' = "failed"
    /\ UNCHANGED <<users, nextId, now, conn, creates>>

CheckedNext ==
    \/ ConnectionCheck
    \/ ConnectionCheckFails
    \/ SeedCreateTable
    \/ SeedCount
    \/ SeedInsert
    \/ SeedFails
    \/ Rest(1, RestRequests)
    \/ StoreResolves(1)
    \/ StoreRejects(1)
    \/ Close(1)

CheckedStartSpec == CheckedInit /\ [][CheckedNext]_vars

(***************************************************************************)
(* RestartSpec: the process is started again, any number of times, over    *)
(* the table the earlier runs left.                                        *)
(***************************************************************************)
\* the process ends, whether it listened or not, and startServer() runs in a
\* new one: the connections are gone, the Store is as it was
Restart ==
    /\ server \in {"listening", "failed"}
    /\ server' = "create_table"
    /\ conn' = [r \in Conn |-> Idle]
    /\ UNCHANGED <<users, nextId, now, creates>>

RestartNext == Next \/ Restart

RestartSpec == Init /\ [][RestartNext]_vars

TypeOK ==
    /\ nextId \in 1..(MaxId + 1)
    /\ now \in 0..MaxId
    /\ server \in {"check", "create_table", "count", "insert", "listening", "failed"}
    /\ \A r \in Conn : conn[r].pc \in {"idle", "awaiting", "done"}

(***************************************************************************)
(* Properties.                                                             *)
(***************************************************************************)
IsMcp(r) == conn[r].req.route = "mcp"
Done(r) == conn[r].pc = "done"

\* the request on r is routed to the invocation branch
IsInvocation(r) ==
    /\ IsMcp(r)
    /\ conn[r].req.method.present
    /\ normalizedMethod(conn[r].req.method) = Method(0, "invoke_tool")

\* the request on r invokes `tool`
Invokes(r, tool) ==
    /\ IsInvocation(r)
    /\ conn[r].req.params.present
    /\ conn[r].req.params.name = Str(tool)

\* the arguments object the handler is handed
ArgsOf(r) == OrEmpty(ParamsOrEmpty(conn[r].req.params).args)

Reply(r) == conn[r].out[1]

IsErrorEnvelope(env, code) ==
    /\ env.shape = "envelope"
    /\ HasError(env)
    /\ ~HasResult(env)
    /\ env.error.code = code

Contains(seq, x) == \E i \in 1..Len(seq) : seq[i] = x

\* C1: every request that reaches the POST /mcp dispatcher is eventually
\* answered, with exactly one envelope, and the envelope's id is the request's.
C1_OneResponsePerRequest ==
    /\ \A r \in Conn : (conn[r].pc = "awaiting") ~> (conn[r].pc = "done")
    /\ [](\A r \in Conn :
            /\ conn[r].pc = "awaiting" => conn[r].out = <<>>
            /\ (Done(r) /\ IsMcp(r)) =>
                 /\ Len(conn[r].out) = 1
                 /\ Reply(r).shape = "envelope"
                 /\ Reply(r).id = conn[r].req.id)

\* a request whose handler failed has been answered, with its own id
C1_Witness ==
    \E r \in Conn : /\ Done(r) /\ IsMcp(r)
                    /\ conn[r].settled = "rejected"
                    /\ conn[r].req.id = Num(1)
                    /\ Len(conn[r].out) = 1
                    /\ Reply(r).id = Num(1)

\* C2: an invocation naming a tool that is not registered is answered with
\* error -32601, the message naming the tool, and no query is issued.
C2_UnknownToolIsNotFound ==
    \A r \in Conn :
        (/\ Done(r) /\ IsInvocation(r)
         /\ conn[r].req.params.present
         /\ conn[r].req.params.name.t = "string"
         /\ conn[r].req.params.name.s \notin ToolNames)
        => /\ IsErrorEnvelope(Reply(r), -32601)
           /\ Contains(Reply(r).error.message, conn[r].req.params.name.s)
           /\ conn[r].query = NoQuery

\* C3: create_user without a role is answered with error -32602 and issues
\* no query.
C3_MissingRoleIsRejected ==
    \A r \in Conn :
        (Done(r) /\ Invokes(r, "create_user") /\ ArgsOf(r).role = Undefined)
        => /\ IsErrorEnvelope(Reply(r), -32602)
           /\ conn[r].query = NoQuery

C5_HandlerFailureIsCaught ==
    \A r \in Conn :
        (Done(r) /\ IsMcp(r) /\ conn[r].settled = "rejected")
        => /\ conn[r].out = <<Reply(r)>>
           /\ IsErrorEnvelope(Reply(r), -32000)
           /\ Reply(r).id = conn[r].req.id
           /\ Reply(r).error.message \in
                {ConnectionLost(users).message,
                 Execute(conn[r].query, users, nextId, now).message}
           /\ Reply(r).error.message # <<>>
           /\ server = "listening"
           /\ ENABLED Close(r)

C5_Witness ==
    \E r \in Conn : /\ Done(r) /\ Invokes(r, "create_user")
                    /\ conn[r].settled = "rejected"
                    /\ Reply(r).error.code = -32000
                    /\ Reply(r).error.message =
                         <<"value too long for type character varying(100)">>

\* C8: every envelope sent has exactly one of the members result and error.
C8_ResultXorError ==
    \A r \in Conn :
        IsMcp(r) => \A i \in 1..Len(conn[r].out) :
                      /\ conn[r].out[i].shape = "envelope"
                      /\ HasResult(conn[r].out[i]) # HasError(conn[r].out[i])

\* a lookup that found no row: the envelope has the member result, with value null
C8_Witness ==
    \E r \in Conn : /\ Done(r) /\ Invokes(r, "get_user")
                    /\ conn[r].settled = "resolved"
                    /\ Reply(r).result = ResNull
                    /\ HasResult(Reply(r)) /\ ~HasError(Reply(r))

\* C9: get_user with the id given as a string is answered with error -32602
\* and the string is not made the parameter of a query.
C9_NumericStringIsRejected ==
    \A r \in Conn :
        (Done(r) /\ Invokes(r, "get_user") /\ ArgsOf(r).id.t = "string")
        => /\ IsErrorEnvelope(Reply(r), -32602)
           /\ conn[r].query = NoQuery

\* the request on r has a validation or routing error: no name, a name that
\* is no tool, a method that is not routed, a required argument missing or
\* of the wrong primitive type
MissingName(r) == IsInvocation(r) /\ ParamsOrEmpty(conn[r].req.params).name = Undefined
UnknownToolName(r) ==
    /\ IsInvocation(r)
    /\ ParamsOrEmpty(conn[r].req.params).name.t = "string"
    /\ ParamsOrEmpty(conn[r].req.params).name.s \notin ToolNames
UnroutedMethod(r) ==
    /\ IsMcp(r) /\ conn[r].req.method.present
    /\ normalizedMethod(conn[r].req.method) \notin
         {Method(0, "initialize"), Method(0, "get_tools"), Method(0, "invoke_tool")}
BadArguments(r) ==
    \/ Invokes(r, "get_user") /\ ArgsOf(r).id.t # "number"
    \/ /\ Invokes(r, "create_user")
       /\ \E v \in {ArgsOf(r).name, ArgsOf(r).email, ArgsOf(r).role} : v.t # "string"

\* C10: a request with a validation or routing error is answered with an
\* error of the -32601/-32602 family without any query having been issued.
C10_FailFast ==
    \A r \in Conn :
        (Done(r) /\ (MissingName(r) \/ UnknownToolName(r) \/ UnroutedMethod(r)
                     \/ BadArguments(r)))
        => /\ HasError(Reply(r))
           /\ Reply(r).error.code \in {-32601, -32602}
           /\ conn[r].query = NoQuery

\* the step in which the request on r is answered, its query resolved
AnsweredNow(r) ==
    /\ conn[r].pc = "awaiting"
    /\ conn'[r].pc = "done"
    /\ conn'[r].settled = "resolved"

StringArguments(r) ==
    \A v \in {ArgsOf(r).name, ArgsOf(r).email, ArgsOf(r).role} : v.t = "string"

\* the entity a create_user on c was answered with, if it was
CreatedOn(c) ==
    /\ Done(c) /\ Invokes(c, "create_user")
    /\ conn[c].settled = "resolved"
    /\ Reply(c).result.kind = "row"

CreateStep(r) ==
    (AnsweredNow(r) /\ Invokes(r, "create_user") /\ StringArguments(r)) =>
        LET env == conn'[r].out[1]
            e == env.result.rows[1]
        IN  /\ env.result.kind = "row" /\ ~HasError(env)
            /\ e.id.t = "number"
            /\ \A k \in Ids(users) : e.id.n > k
            /\ e.id.n >= nextId
            /\ \A c \in Conn : CreatedOn(c) => e.id.n > Reply(c).result.rows[1].id.n
            /\ e.name = ArgsOf(r).name
            /\ e.email = ArgsOf(r).email
            /\ e.role = ArgsOf(r).role
            /\ RowsJson(RowsWithId(users', e.id.n)) = <<e>>

GetStep(r) ==
    (AnsweredNow(r) /\ Invokes(r, "get_user") /\ ArgsOf(r).id.t = "number") =>
        \A c \in Conn :
            (CreatedOn(c) /\ Reply(c).result.rows[1].id = ArgsOf(r).id)
            => conn'[r].out[1] = ResultEnvelope(conn[r].req.id, Reply(c).result)

\* C6: a create_user with string name, email and role that succeeds is
\* answered with an entity whose id is a number greater than every id
\* assigned before, holding the arguments; and a get_user with that id
\* answered afterwards returns the same entity.
C6_CreateThenGet ==
    [][\A r \in Conn : CreateStep(r) /\ GetStep(r)]_vars

\* a create was answered with an entity, and a later get_user with its id
\* with the same entity
C6_Witness ==
    \E c, r \in Conn :
        /\ c # r
        /\ CreatedOn(c)
        /\ Done(r) /\ Invokes(r, "get_user")
        /\ ArgsOf(r).id = Reply(c).result.rows[1].id
        /\ Reply(r).result = Reply(c).result

HasUniqueIds(rows) ==
    \A i, j \in 1..Len(rows) : rows[i].id = rows[j].id => i = j

ListStep(r) ==
    (AnsweredNow(r) /\ Invokes(r, "list_users")) =>
        LET env == conn'[r].out[1] IN
        /\ env.result.kind = "rows" /\ ~HasError(env)
        /\ Len(env.result.rows) = creates + 2
        /\ HasUniqueIds(env.result.rows)

\* C7: from the seed of 2 rows, list_users answered after N successful
\* creates returns N + 2 entities, no two with the same id.
C7_ListCountsCreates ==
    [][\A r \in Conn : ListStep(r)]_vars

C7_Witness ==
    \E r \in Conn :
        /\ Done(r) /\ Invokes(r, "list_users")
        /\ conn[r].settled = "resolved"
        /\ creates = 2
        /\ Len(Reply(r).result.rows) = 4
        /\ HasUniqueIds(Reply(r).result.rows)

\* the request on r carries params {name, arguments} naming create_user with
\* the arguments of Carol, under the method tools/call or a routed
\* invocation method
CarolByArguments(r) ==
    /\ IsMcp(r)
    /\ conn[r].req.method.present
    /\ \/ conn[r].req.method = Method(0, "tools/call")
       \/ IsInvocation(r)
    /\ conn[r].req.params = Params(Str("create_user"), NoObj, Carol)

\* C11: an invocation carrying params {name: "create_user", arguments: Carol}
\* is answered with a result, the entity named "Carol" holding the email and
\* role given; issued against the fresh seed of 2 rows the entity's id is 3.
C11_ArgumentsReachTheHandler ==
    \A r \in Conn :
        (Done(r) /\ CarolByArguments(r) /\ conn[r].settled # "rejected")
        => /\ HasResult(Reply(r)) /\ ~HasError(Reply(r))
           /\ Reply(r).result.kind = "row"
           /\ Reply(r).result.rows[1].name = Str("Carol")
           /\ Reply(r).result.rows[1].email = Str("carol@example.com")
           /\ Reply(r).result.rows[1].role = Str("user")
           /\ creates <= 1 => Reply(r).result.rows[1].id = Num(3)

\* C12: a request without the member method, or with a method that is not
\* routed, is answered with an error of the -32601/-32602 family and no
\* result; a method string that is not routed with -32601.
C12_MalformedOrUnknownMethod ==
    \A r \in Conn :
        (Done(r) /\ IsMcp(r) /\ (~conn[r].req.method.present \/ UnroutedMethod(r)))
        => /\ HasError(Reply(r)) /\ ~HasResult(Reply(r))
           /\ Reply(r).error.code \in {-32601, -32602}
           /\ conn[r].req.method.present => Reply(r).error.code = -32601

\* C13: an invocation whose params has no name, or that has no params, is
\* answered with error -32602 and no handler runs.
C13_MissingNameIsInvalidParams ==
    \A r \in Conn :
        (Done(r) /\ MissingName(r))
        => /\ IsErrorEnvelope(Reply(r), -32602)
           /\ conn[r].query = NoQuery
           /\ conn[r].settled = "none"

\* the request on r is routed to the discovery branch
IsDiscovery(r) ==
    /\ IsMcp(r)
    /\ conn[r].req.method.present
    /\ normalizedMethod(conn[r].req.method) \in
         {Method(0, "initialize"), Method(0, "get_tools")}

RegisteredTools ==
    << [name |-> "list_users", description |-> "List all users"],
       [name |-> "get_user", description |-> "Get a user by ID"],
       [name |-> "create_user", description |-> "Create a new user"] >>

\* C14: whatever has happened before, a discovery request is answered with a
\* result whose tools are list_users, get_user and create_user in this order,
\* each with its name and description; and an invocation reaches a handler
\* exactly when it names one of the three.
C14_RegistryIsFixed ==
    \A r \in Conn :
        /\ (Done(r) /\ IsDiscovery(r))
           => /\ Reply(r) = ResultEnvelope(conn[r].req.id, Reply(r).result)
              /\ Reply(r).result.kind = "discovery"
              /\ Reply(r).result.rows = RegisteredTools
              /\ conn[r].query = NoQuery
        /\ (Done(r) /\ IsInvocation(r))
           => (conn[r].query # NoQuery
               <=> ParamsOrEmpty(conn[r].req.params).name
                     \in {Str("list_users"), Str("get_user"), Str("create_user")})

\* discovery answered after users were created
C14_Witness ==
    \E r \in Conn :
        /\ Done(r) /\ IsDiscovery(r)
        /\ creates >= 1
        /\ Len(Reply(r).result.rows) = 3
        /\ Reply(r).result.rows[1].name = "list_users"
        /\ Reply(r).result.rows[3].description = "Create a new user"

\* every row of the table is in the table after the step, field for field
EntitiesPersist == \A i \in 1..Len(users) : Contains(users', users[i])

\* the step answers a create, by the tool or by POST /tools/create_user,
\* whose INSERT the Store ran
CreateAnswered(r) ==
    /\ conn[r].pc = "awaiting"
    /\ conn[r].query.op = "insert"
    /\ conn'[r].pc = "done"
    /\ conn'[r].settled = "resolved"

\* C15: a row of users, once there, is there after every step with the same
\* id, name, email, role and creation timestamp; and while the server
\* listens the table changes only in a step that answers a create, which
\* adds one row.
C15_EntitiesOnlyAccrue ==
    [][/\ EntitiesPersist
       /\ (server = "listening" /\ users' # users)
          => /\ \E r \in Conn : CreateAnswered(r)
             /\ Len(users') = Len(users) + 1]_vars

\* a created row and the seed rows are in the table after a later request
\* was refused by the Store
C15_Witness ==
    \E r \in Conn :
        /\ Done(r) /\ conn[r].settled = "rejected"
        /\ Len(users) = 3
        /\ users[1] = SeedRows(1, 0)[1]
        /\ users[2] = SeedRows(1, 0)[2]
        /\ users[3].id = 3
        /\ nextId = 5

\* the response sent on r in this step is what the handler on r sends once
\* its own query has settled: resolved with its rows, or refused
OwnOutcome(r) ==
    LET o == Execute(conn[r].query, users, nextId, now) IN
    IF conn'[r].settled = "resolved"
    THEN o.ok /\ conn'[r].out = <<Respond(conn[r].req, o)>>
    ELSE \/ conn'[r].out = <<Respond(conn[r].req, ConnectionLost(users))>>
         \/ ~o.ok /\ conn'[r].out = <<Respond(conn[r].req, o)>>

IndependentStep(r) ==
    (conn'[r] # conn[r]) =>
        /\ \A c \in Conn \ {r} : conn'[c] = conn[c]
        /\ conn'[r].pc = "awaiting" => conn'[r].out = <<>>
        /\ conn'[r].pc = "done" =>
             /\ Len(conn'[r].out) = 1
             /\ conn'[r].req.route = "mcp" => conn'[r].out[1].id = conn'[r].req.id
             /\ conn[r].pc = "awaiting" =>
                  /\ conn'[r].req = conn[r].req
                  /\ OwnOutcome(r)

ReadStep(r) ==
    (/\ conn[r].pc = "awaiting" /\ conn'[r].pc = "done"
     /\ (Invokes(r, "list_users") \/ Invokes(r, "get_user")))
    => /\ users' = users /\ nextId' = nextId /\ now' = now
       /\ conn'[r].settled = "resolved"
          => LET again == Dispatch(conn[r].req).query IN
             conn'[r].out =
               <<Resume(conn[r].req, Execute(again, users', nextId', now'))>>

\* the step in which create_user on r is answered with an entity: a row is
\* added under an id no row had, also when a row with the same name, email
\* and role is there already
InsertStep(r) ==
    (AnsweredNow(r) /\ Invokes(r, "create_user")) =>
        LET e == conn'[r].out[1].result.rows[1] IN
        /\ Len(users') = Len(users) + 1
        /\ SubSeq(users', 1, Len(users)) = users
        /\ RowJson(users'[Len(users')]) = e
        /\ e.id.n \notin Ids(users)

\* C17: answering list_users or get_user leaves the Store unchanged and the
\* call repeated gets the same result; answering create_user adds a row with
\* a new id every time, so two calls with the same arguments leave two rows
\* with different ids.
C17_ReadsAreReadOnlyCreateIsNot ==
    [][\A r \in Conn : ReadStep(r) /\ InsertStep(r)]_vars

\* create_user was answered twice for Carol's arguments: rows 3 and 4 hold
\* the same name, email and role
C17_Witness ==
    \E r \in Conn :
        /\ CreatedOn(r) /\ ArgsOf(r) = Carol
        /\ Len(users) = 4
        /\ users[3].id = 3 /\ users[4].id = 4
        /\ users[3].name = SqlText("Carol") /\ users[4].name = users[3].name
        /\ users[4].email = users[3].email
        /\ users[4].role = users[3].role
        /\ Reply(r).result.rows[1].id = Num(4)

RoutedNames == {"initialize", "get_tools", "invoke_tool"}

\* the request on r with its method replaced by m
WithMethod(r, m) == [conn[r].req EXCEPT !.method = m]

\* the request on r was sent as "mcp/X": the dispatcher has done with it what
\* it does with X, the same query issued or the same response sent, and
\* resumes from the query the same way
PrefixedAsPlain(r) ==
    (/\ IsMcp(r) /\ conn[r].pc # "idle"
     /\ conn[r].req.method.present
     /\ conn[r].req.method.mcp = 1
     /\ conn[r].req.method.rest \in RoutedNames)
    => LET plain == WithMethod(r, Method(0, conn[r].req.method.rest))
           d == Dispatch(plain)
       IN  /\ conn[r].query = d.query
           /\ d.out # <<>> => conn[r].out = d.out
           /\ d.out = <<>> =>
                /\ conn[r].query # NoQuery
                /\ \A o \in {Execute(d.query, users, nextId, now), ConnectionLost(users)} :
                     Resume(conn[r].req, o) = Resume(plain, o)
                /\ Done(r) => /\ Reply(r).id = plain.id
                              /\ HasError(Reply(r)) = (conn[r].settled = "rejected")

\* the method on r is a routed name in other letter case
OtherCase(r) ==
    /\ IsMcp(r) /\ conn[r].req.method.present
    /\ conn[r].req.method.rest \in {"Invoke_Tool", "INITIALIZE"}

\* C19: a request sent with method "mcp/X", X one of initialize, get_tools,
\* invoke_tool, takes the branch and gets the response of the same request
\* sent with method X; a method that differs from a routed one in letter
\* case is answered as an unknown method, -32601.
C19_PrefixStrippedCaseKept ==
    \A r \in Conn :
        /\ PrefixedAsPlain(r)
        /\ (Done(r) /\ OtherCase(r))
           => /\ Reply(r) = UnknownMethod(conn[r].req.id, conn[r].req.method)
              /\ IsErrorEnvelope(Reply(r), -32601)
              /\ conn[r].query = NoQuery

\* "mcp/invoke_tool" has created Carol
C19_Witness ==
    \E r \in Conn :
        /\ conn[r].req.method = Method(1, "invoke_tool")
        /\ CreatedOn(r)
        /\ Reply(r).result.rows[1].name = Str("Carol")

\* the table holds what seedDatabase leaves: Alice and Bob, in the first two
\* rows
Seeded ==
    /\ Len(users) >= 2
    /\ users[1].name = SqlText("Alice") /\ users[1].email = SqlText("alice@example.com")
    /\ users[2].name = SqlText("Bob") /\ users[2].email = SqlText("bob@example.com")

\* C18: the server listens only when seedDatabase has run to its end, so a
\* request is taken only over the seeded table; the step that starts
\* listening is the last step of seedDatabase; and once the connection check
\* or a query of seedDatabase has failed the server never listens.
C18_SeedBeforeServe ==
    /\ [](server = "listening" => Seeded)
    /\ [](\A r \in Conn : conn[r].pc # "idle" => (server = "listening" /\ Seeded))
    /\ [][/\ (server # "listening" /\ server' = "listening")
             => (server \in {"count", "insert"} /\ Seeded')
          /\ server = "failed" => server' = "failed"
          /\ server = "check" => users' = users]_vars

\* a request has been answered by the listening server over the two seed rows
C18_Witness ==
    \E r \in Conn :
        /\ server = "listening"
        /\ Done(r)
        /\ conn[r].req.route = "rest_list"
        /\ conn[r].out[1].shape = "raw"
        /\ Len(users) = 2 /\ Seeded

\* a step of seedDatabase
SeedStep == server \in {"create_table", "count", "insert"} /\ server' # server

\* C20: seedDatabase inserts Alice and Bob if and only if it counts no rows
\* and otherwise leaves the table as it is; however often the process is
\* started again, a listening server has the two seed rows once, followed by
\* the rows that were created.
C20_SeedOnlyWhenEmpty ==
    /\ [][SeedStep =>
            /\ (server = "count" /\ server' # "failed")
               => (IF users = <<>> THEN server' = "insert" ELSE server' = "listening")
            /\ server' # "failed" => (users' # users <=> (server = "insert" /\ users = <<>>))
            /\ (server = "insert" /\ server' # "failed")
               => /\ Len(users') = 2 /\ Seeded'
                  /\ users'[1].role = SqlText("admin")
                  /\ users'[2].role = SqlText("user")
            /\ server' = "failed" => users' = users]_vars
    /\ [](server = "listening" => (Seeded /\ Len(users) = creates + 2))

\* seedDatabase runs again, over a table that holds the seed rows and a row
\* created since, and is about to count them
C20_Witness ==
    /\ server = "count"
    /\ Len(users) = 3
    /\ Seeded
    /\ creates = 1

====
